---- MODULE Spec2Model ----
(***************************************************************************)
(* key-ripper keyboard firmware: matrix -> HID report encoders             *)
(* (firmware/src/main.rs report_from_matrix, firmware/src/key_scan.rs      *)
(* From<KeyScan> for KbHidReport), the Keyboard HID device                 *)
(* (firmware/src/keyboard.rs), the power-on check, poll loop and USB       *)
(* interrupt handler of main (firmware/src/main.rs), and the matrix scan   *)
(* (main.rs scan_keys, key_scan.rs KeyScan::scan).                         *)
(***************************************************************************)
EXTENDS Integers, Sequences, FiniteSets, TLC

(***************************************************************************)
(* Matrix geometry (main.rs).                                              *)
(***************************************************************************)
NUM_COLS == 14
NUM_ROWS == 6

Cols == 0 .. (NUM_COLS - 1)
Rows == 0 .. (NUM_ROWS - 1)

(***************************************************************************)
(* Bounds of the model.                                                    *)
(***************************************************************************)
\* most switches held at once in an encoder input
MaxHeld == 8
\* most switches held at once in a scan of the firmware's main
MaxLoopHeld == 2
\* longest set_report payload tried
MaxLen == 2
\* most periods of the scan countdown that run out before wait() answers them
MaxPending == 2
\* most setter calls made through one reference handed out by leds_mut
MaxSetterCalls == 2

(***************************************************************************)
(* key_codes::KeyCode (HID usage ids, repr(u8)).                           *)
(***************************************************************************)
Empty == 0
ErrorRollOver == 1
PostFail == 2
ErrorUndefined == 3
LeftCtrl == 224
RightGui == 231

Bytes == 0 .. 255

(***************************************************************************)
(* u8 bit operations.                                                      *)
(***************************************************************************)
\* 2^n for n in 0 .. 8
Pow2(n) == 2 ^ n

\* bit k of the byte a
Bit(a, k) == (a \div Pow2(k)) % 2

\* bit k of a | b and of a & b
OrBit(a, b, k) == IF Bit(a, k) = 1 \/ Bit(b, k) = 1 THEN Pow2(k) ELSE 0
AndBit(a, b, k) == IF Bit(a, k) = 1 /\ Bit(b, k) = 1 THEN Pow2(k) ELSE 0

\* a | b on u8
BitOr(a, b) ==
    OrBit(a, b, 0) + OrBit(a, b, 1) + OrBit(a, b, 2) + OrBit(a, b, 3)
    + OrBit(a, b, 4) + OrBit(a, b, 5) + OrBit(a, b, 6) + OrBit(a, b, 7)

\* a & b on u8
BitAnd(a, b) ==
    AndBit(a, b, 0) + AndBit(a, b, 1) + AndBit(a, b, 2) + AndBit(a, b, 3)
    + AndBit(a, b, 4) + AndBit(a, b, 5) + AndBit(a, b, 6) + AndBit(a, b, 7)

\* 1 << k on u8
Shl1(k) == Pow2(k) % 256

(***************************************************************************)
(* KeyCode::is_modifier and KeyCode::modifier_bitmask.  An Option<u8> is   *)
(* the empty sequence (None) or a one-element sequence (Some).             *)
(***************************************************************************)
is_modifier(kc) == LeftCtrl <= kc /\ kc <= RightGui

modifier_bitmask(kc) ==
    IF is_modifier(kc) THEN << Shl1(kc - LeftCtrl) >> ELSE << >>

(***************************************************************************)
(* key_mapping::NORMAL_LAYER_MAPPING and key_mapping::FN_LAYER_MAPPING:    *)
(* [[KeyCode; NUM_ROWS]; NUM_COLS], one tuple per column.  Representative  *)
(* tables holding identities of all four classes (empty, modifier,         *)
(* rollover/error sentinel, normal key).                                   *)
(***************************************************************************)
NORMAL_LAYER_MAPPING ==
    << << 41, 53, 43, 57, 225,   0 >>,
       << 58, 30, 20,  4,   0, 224 >>,
       << 59, 31, 26, 22,  29, 227 >>,
       << 60, 32,  8,  7,  27, 226 >>,
       << 61, 33, 21,  9,   6,   0 >>,
       << 62, 34, 23, 10,  25,   0 >>,
       << 63, 35, 28, 11,   5,  44 >>,
       << 64, 36, 24, 13,  17,   0 >>,
       << 65, 37, 12, 14,  16,   0 >>,
       << 66, 38, 18, 15,  54, 230 >>,
       << 67, 39, 19, 51,  55, 228 >>,
       << 68, 45, 47, 52,  56,  80 >>,
       << 69, 46, 48, 40, 229,  81 >>,
       << 76, 42, 49, 75,  82,  79 >> >>

FN_LAYER_MAPPING ==
    << << 41, 53, 43, 57, 225,   0 >>,
       << 58, 58,  0,  4,   0, 224 >>,
       << 59, 59, 82, 22,  29, 227 >>,
       << 60, 60,  8,  7,  27, 226 >>,
       << 61, 61, 21,  9,   6,   0 >>,
       << 62, 62, 23, 10,  25,   0 >>,
       << 63, 63, 28, 11,   5,  44 >>,
       << 64, 64, 24, 13,  17,   0 >>,
       << 65, 65, 12, 14,  16,   0 >>,
       << 66, 66, 18, 15,  54, 230 >>,
       << 67, 67, 19, 51,  55, 228 >>,
       << 68, 68, 47, 52,  56,  74 >>,
       << 69, 69, 48, 40, 229,  78 >>,
       <<  2,  3,  1, 75,  75,  77 >> >>

\* mapping[col][row] of a Rust array of columns
At(mapping, c, r) == mapping[c + 1][r + 1]

(***************************************************************************)
(* Matrices: [[bool; NUM_ROWS]; NUM_COLS], matrix[col][row].               *)
(***************************************************************************)
\* the matrix in which exactly the cells of held are asserted
MatrixOf(held) == [c \in Cols |-> [r \in Rows |-> << c, r >> \in held]]

\* the cells of the matrix in the order matrix.iter() and its inner iter() visit
\* them: cell i is row i % NUM_ROWS of column i \div NUM_ROWS
NumCells == NUM_COLS * NUM_ROWS
CellCol(i) == i \div NUM_ROWS
CellRow(i) == i % NUM_ROWS
IterOrder == [j \in 1 .. NumCells |-> j - 1]

\* the cells for which `if *key_pressed` holds, in iteration order
AssertedCells(matrix) ==
    SelectSeq(IterOrder, LAMBDA i : matrix[CellCol(i)][CellRow(i)])

\* the switches the model presses
Switches ==
    { << 0, 0 >>, << 0, 5 >>, << 0, 4 >>, << 1, 5 >>, << 1, 2 >>, << 1, 3 >>,
      << 2, 2 >>, << 2, 3 >>, << 3, 2 >>, << 3, 3 >>, << 4, 2 >>, << 1, 4 >>,
      << 13, 0 >>, << 11, 5 >>, << 13, 3 >> }

HeldSets == { h \in SUBSET Switches : Cardinality(h) <= MaxHeld }

(***************************************************************************)
(* State.                                                                  *)
(*   enc_scan, enc_hid, enc_report: an encoder input and what the two      *)
(*   encoders made of it (<< >> while not yet encoded).                    *)
(*   kb_report, leds: the fields of the Keyboard HID device; led_calls     *)
(*   counts the calls the last operation made to each setter of the Leds   *)
(*   collaborator (after leds_mut: the calls the holder of the reference   *)
(*   made through it); committed is the last report handed to              *)
(*   set_keyboard_report; last is the last operation with its arguments    *)
(*   and result.                                                           *)
(*   The firmware's main: pc is the position of main; usb_bus, usb_hid     *)
(*   and usb_device tell whether the statics USB_BUS, USB_HID, USB_DEVICE  *)
(*   are Some; period is the period of scan_countdown in ms (0 before it   *)
(*   is started); irq_unmasked tells whether USBCTRL_IRQ is unmasked;      *)
(*   power_on_matrix is the matrix of the scan before the loop;            *)
(*   loop_matrix and loop_report are the locals matrix and report of the   *)
(*   loop body (<< >> before they are set); prev_matrix and prev_report    *)
(*   are those of the cycle before (<< >> while there is none); ep_in is   *)
(*   the IN endpoint buffer of the HID class (<< >> when free); push_ret   *)
(*   is what push_input returned and pull_ret what pull_raw_output         *)
(*   returned, while main matches on the result ("none" otherwise);        *)
(*   elapsed counts the periods of scan_countdown that have run out and    *)
(*   that wait() has not yet answered; cs tells whether main is inside     *)
(*   critical_section::with; prev_push is what push_input returned in the  *)
(*   cycle before; cycle_scans and cycle_pushes count the scans and the    *)
(*   push_input calls made since wait() last returned Ok.                  *)
(*   One matrix scan, step by step (the two scans of main run through      *)
(*   these steps, so the interrupt handler can run between any two of      *)
(*   them once it is unmasked): scan_fn is the function scanning           *)
(*   ("scan_keys" of main.rs or "KeyScan_scan" of key_scan.rs), scan_at    *)
(*   its position, scan_col the column of the loop, drive the levels of    *)
(*   the column pins, settle the microseconds since a pin last changed,    *)
(*   closed the closed switches, raw_matrix the local filled by the loop,  *)
(*   col_log the columns driven high so far; debounce_calls counts the     *)
(*   calls of Debounce::report_and_tick and debounce_in is the argument    *)
(*   of the last one (<< >> before any); scan_out is the matrix returned   *)
(*   (<< >> before the scan returns).                                      *)
(***************************************************************************)
VARIABLES enc_scan, enc_hid, enc_report,
          kb_report, leds, led_calls, committed, last,
          pc, usb_bus, usb_hid, usb_device, period, irq_unmasked,
          power_on_matrix, loop_matrix, loop_report, prev_matrix, prev_report,
          ep_in, push_ret, pull_ret,
          elapsed, cs, prev_push, cycle_scans, cycle_pushes,
          scan_fn, scan_at, scan_col, drive, settle, closed, raw_matrix,
          col_log, debounce_calls, debounce_in, scan_out

enc_vars == << enc_scan, enc_hid, enc_report >>

kbd_vars == << kb_report, leds, led_calls, committed, last >>

main_vars == << pc, usb_bus, usb_hid, usb_device, period, irq_unmasked,
                power_on_matrix, loop_matrix, loop_report, prev_matrix, prev_report,
                ep_in, push_ret, pull_ret,
                elapsed, cs, prev_push, cycle_scans, cycle_pushes >>

scan_vars == << scan_fn, scan_at, scan_col, drive, settle, closed, raw_matrix,
                col_log, debounce_calls, debounce_in, scan_out >>

vars == << enc_scan, enc_hid, enc_report, kb_report, leds, led_calls, committed, last,
           pc, usb_bus, usb_hid, usb_device, period, irq_unmasked,
           power_on_matrix, loop_matrix, loop_report, prev_matrix, prev_report,
           ep_in, push_ret, pull_ret,
           elapsed, cs, prev_push, cycle_scans, cycle_pushes,
           scan_fn, scan_at, scan_col, drive, settle, closed, raw_matrix,
           col_log, debounce_calls, debounce_in, scan_out >>

(***************************************************************************)
(* keyboard.rs: KbHidReport([u8; 8]), byte 0 the modifiers, byte 1         *)
(* reserved, bytes 2..7 the key slots.  Rust index i is TLA+ index i + 1.  *)
(***************************************************************************)
KbHidReport_default == << 0, 0, 0, 0, 0, 0, 0, 0 >>

\* KbHidReport::set_all: every key slot becomes kc
set_all(report, kc) == [i \in 1 .. 8 |-> IF i >= 3 THEN kc ELSE report[i]]

\* the key slots of the report that hold 0
FreeSlots(report) == { i \in 3 .. 8 : report[i] = 0 }

\* smallest element of a non-empty set of integers
Min(S) == CHOOSE x \in S : \A y \in S : x <= y

\* KbHidReport::pressed
pressed(report, kc) ==
    IF kc = Empty THEN report
    ELSE IF kc \in { ErrorRollOver, PostFail, ErrorUndefined } THEN set_all(report, kc)
    ELSE IF is_modifier(kc)
         THEN [report EXCEPT ![1] = BitOr(report[1], modifier_bitmask(kc)[1])]
    ELSE IF FreeSlots(report) # {}
         THEN [report EXCEPT ![Min(FreeSlots(report))] = kc]
    ELSE set_all(report, ErrorRollOver)

(***************************************************************************)
(* key_scan.rs: impl From<KeyScan> for KbHidReport.                        *)
(***************************************************************************)
\* the layer the scan selects
scan_layer_mapping(scan) ==
    IF scan[0][5] THEN FN_LAYER_MAPPING ELSE NORMAL_LAYER_MAPPING

\* the two nested loops over columns and rows: the body runs for the asserted
\* cells, in iteration order
RECURSIVE KbHidReport_cells(_, _, _)
KbHidReport_cells(mapping, report, cells) ==
    IF cells = << >> THEN report
    ELSE KbHidReport_cells(mapping,
             pressed(report, At(mapping, CellCol(Head(cells)), CellRow(Head(cells)))),
             Tail(cells))

KbHidReport_from(scan) ==
    KbHidReport_cells(scan_layer_mapping(scan), KbHidReport_default, AssertedCells(scan))

(***************************************************************************)
(* main.rs: report_from_matrix.  The locals keycodes, keycode_index and    *)
(* modifier are one record; the result is the usbd_hid KeyboardReport.     *)
(***************************************************************************)
\* the closure push_keycode
push_keycode(st, key) ==
    IF st.keycode_index < Len(st.keycodes)
    THEN [st EXCEPT !.keycodes[st.keycode_index + 1] = key,
                    !.keycode_index = st.keycode_index + 1]
    ELSE st

\* a layer choice that latches: FN also while the cycle before had FN
layer_mapping_latched(m) ==
    IF m[0][5] \/ (prev_matrix # << >> /\ prev_matrix[1][0][5])
    THEN FN_LAYER_MAPPING
    ELSE NORMAL_LAYER_MAPPING

\* the layer the matrix selects
layer_mapping(matrix) ==
    IF matrix[0][5] THEN FN_LAYER_MAPPING ELSE NORMAL_LAYER_MAPPING

\* the body of the inner loop for one asserted cell
report_cell(st, mapping_row) ==
    IF modifier_bitmask(mapping_row) # << >>
    THEN [st EXCEPT !.modifier = BitOr(st.modifier, modifier_bitmask(mapping_row)[1])]
    ELSE push_keycode(st, mapping_row)

\* the two nested loops over columns and rows: the body runs for the asserted
\* cells, in iteration order
RECURSIVE report_cells(_, _, _)
report_cells(mapping, st, cells) ==
    IF cells = << >> THEN st
    ELSE report_cells(mapping,
             report_cell(st, At(mapping, CellCol(Head(cells)), CellRow(Head(cells)))),
             Tail(cells))

report_from_matrix(matrix) ==
    LET st == report_cells(layer_mapping(matrix),
                  [keycodes |-> << 0, 0, 0, 0, 0, 0 >>, keycode_index |-> 0, modifier |-> 0],
                  AssertedCells(matrix))
    IN  [modifier |-> st.modifier, reserved |-> 0, leds |-> 0, keycodes |-> st.keycodes]

\* the 8 bytes of the input report a KeyboardReport goes out as
WireBytes(report) == << report.modifier, report.reserved >> \o report.keycodes

(***************************************************************************)
(* keyboard.rs: the Leds collaborator.  The model's collaborator stores    *)
(* what each setter is given and counts the calls.                         *)
(***************************************************************************)
LedNames == { "num_lock", "caps_lock", "scroll_lock", "compose", "kana" }

LedsOff == [n \in LedNames |-> FALSE]
NoCalls == [n \in LedNames |-> 0]

\* one setter of the trait Leds: the indicators after, and the call counts after
led_set(state, name, status) == [state EXCEPT ![name] = status]
led_called(calls, name) == [calls EXCEPT ![name] = @ + 1]

\* the calls counted over the setters in names
RECURSIVE SumOver(_, _)
SumOver(calls, names) ==
    IF names = {} THEN 0
    ELSE LET n == CHOOSE x \in names : TRUE
         IN  calls[n] + SumOver(calls, names \ { n })

(***************************************************************************)
(* hid::ReportType.                                                        *)
(***************************************************************************)
ReportTypes == { "Input", "Output", "Feature" }

(***************************************************************************)
(* keyboard.rs: Keyboard<L>.                                               *)
(***************************************************************************)
\* Keyboard::new: the report field
Keyboard_new_report == KbHidReport_default

\* set_keyboard_report that reports a change whatever it is given
set_keyboard_report_always_true(self_report, report) ==
    [ret |-> TRUE, report |-> report]

\* Keyboard::set_keyboard_report: the value returned and the report field after
set_keyboard_report(self_report, report) ==
    IF report = self_report
    THEN [ret |-> FALSE, report |-> self_report]
    ELSE [ret |-> TRUE, report |-> report]

\* get_report that serves report id 0 alone
get_report_id_checked(self_report, report_type, report_id) ==
    IF report_type = "Input" /\ report_id = 0
    THEN [ok |-> TRUE, bytes |-> self_report]
    ELSE [ok |-> FALSE, bytes |-> << >>]

\* Keyboard::get_report: Ok(&self.report) or Err(hid::Error)
get_report(self_report, report_type, report_id) ==
    IF report_type = "Input"
    THEN [ok |-> TRUE, bytes |-> self_report]
    ELSE [ok |-> FALSE, bytes |-> << >>]

\* the indicators and call counts after the five setters, given the five tests
leds_after(self_leds, num, caps, scroll, compose, kana) ==
    [ok |-> TRUE,
     leds |->
         led_set(led_set(led_set(led_set(led_set(self_leds,
             "num_lock", num), "caps_lock", caps), "scroll_lock", scroll),
             "compose", compose), "kana", kana),
     calls |->
         led_called(led_called(led_called(led_called(led_called(NoCalls,
             "num_lock"), "caps_lock"), "scroll_lock"), "compose"), "kana")]

\* set_report with `d & 1 << k` read as `(d & 1) << k`
set_report_and_first(self_leds, report_type, report_id, data) ==
    IF report_type = "Output" /\ report_id = 0 /\ Len(data) = 1
    THEN LET d == data[1]
         IN  leds_after(self_leds,
                 BitAnd(d, 1) # 0,
                 (BitAnd(d, 1) * Pow2(1)) % 256 # 0,
                 (BitAnd(d, 1) * Pow2(2)) % 256 # 0,
                 (BitAnd(d, 1) * Pow2(3)) % 256 # 0,
                 (BitAnd(d, 1) * Pow2(4)) % 256 # 0)
    ELSE [ok |-> FALSE, leds |-> self_leds, calls |-> NoCalls]

\* set_report that does not look at the report id
set_report_any_id(self_leds, report_type, report_id, data) ==
    IF report_type = "Output" /\ Len(data) = 1
    THEN LET d == data[1]
         IN  leds_after(self_leds,
                 BitAnd(d, 1) # 0,
                 BitAnd(d, Shl1(1)) # 0,
                 BitAnd(d, Shl1(2)) # 0,
                 BitAnd(d, Shl1(3)) # 0,
                 BitAnd(d, Shl1(4)) # 0)
    ELSE [ok |-> FALSE, leds |-> self_leds, calls |-> NoCalls]

\* Keyboard::set_report: Ok(()) or Err(hid::Error), and the collaborator after
set_report(self_leds, report_type, report_id, data) ==
    IF report_type = "Output" /\ report_id = 0 /\ Len(data) = 1
    THEN LET d == data[1]
         IN  leds_after(self_leds,
                 BitAnd(d, 1) # 0,
                 BitAnd(d, Shl1(1)) # 0,
                 BitAnd(d, Shl1(2)) # 0,
                 BitAnd(d, Shl1(3)) # 0,
                 BitAnd(d, Shl1(4)) # 0)
    ELSE [ok |-> FALSE, leds |-> self_leds, calls |-> NoCalls]

(***************************************************************************)
(* Inputs of the device operations.                                        *)
(***************************************************************************)
\* reports handed to set_keyboard_report: what the encoder makes of these switches
KbdSwitches == { << 0, 4 >>, << 1, 3 >> }
KbdReports == { KbHidReport_from(MatrixOf(h)) : h \in SUBSET KbdSwitches }

ReportIds == { 0, 1 }

\* one payload of every length up to MaxLen, every byte 0x1f
Payloads == { [j \in 1 .. n |-> 31] : n \in 0 .. MaxLen }

\* set_report calls: every one-byte payload for the output report, id 0; one
\* payload of every length for every type and id
SetReportCalls ==
    { << "Output", 0, << d >> >> : d \in Bytes }
    \cup { << t, i, p >> : t \in ReportTypes, i \in ReportIds, p \in Payloads }

(***************************************************************************)
(* Initial states, and the encoders applied to bounded matrices.           *)
(***************************************************************************)
\* an operation of the device with its arguments and result
Call(op, report_type, report_id, data, ok, bytes) ==
    [op |-> op, report_type |-> report_type, report_id |-> report_id,
     data |-> data, ok |-> ok, bytes |-> bytes]

\* main before its first statement
MainStart ==
    /\ pc = "init_usb_bus"
    /\ usb_bus = FALSE
    /\ usb_hid = FALSE
    /\ usb_device = FALSE
    /\ period = 0
    /\ irq_unmasked = FALSE
    /\ power_on_matrix = << >>
    /\ loop_matrix = << >>
    /\ loop_report = << >>
    /\ prev_matrix = << >>
    /\ prev_report = << >>
    /\ ep_in = << >>
    /\ push_ret = "none"
    /\ pull_ret = "none"
    /\ elapsed = 0
    /\ cs = FALSE
    /\ prev_push = "none"
    /\ cycle_scans = 0
    /\ cycle_pushes = 0

\* no scan under way: every column pin low, no switch closed, the filter not called
ScanStart ==
    /\ scan_fn = "scan_keys"
    /\ scan_at = "idle"
    /\ scan_col = 0
    /\ drive = [c \in Cols |-> FALSE]
    /\ settle = 0
    /\ closed = {}
    /\ raw_matrix = MatrixOf({})
    /\ col_log = << >>
    /\ debounce_calls = 0
    /\ debounce_in = << >>
    /\ scan_out = << >>

\* Keyboard::new(leds)
KbdInit ==
    /\ enc_scan = MatrixOf({})
    /\ enc_hid = << >>
    /\ enc_report = << >>
    /\ MainStart
    /\ ScanStart
    /\ kb_report = Keyboard_new_report
    /\ leds = LedsOff
    /\ led_calls = NoCalls
    /\ committed = KbHidReport_default
    /\ last = Call("new", "", 0, << >>, TRUE, << >>)

EncInit ==
    /\ enc_scan \in { MatrixOf(h) : h \in HeldSets }
    /\ enc_hid = << >>
    /\ enc_report = << >>
    /\ kb_report = Keyboard_new_report
    /\ leds = LedsOff
    /\ led_calls = NoCalls
    /\ committed = KbHidReport_default
    /\ last = Call("new", "", 0, << >>, TRUE, << >>)
    /\ MainStart
    /\ ScanStart

\* KbHidReport::from(scan)
EncodeKbHidReport ==
    /\ enc_hid = << >>
    /\ enc_hid' = KbHidReport_from(enc_scan)
    /\ UNCHANGED << enc_scan, enc_report >>
    /\ UNCHANGED << kbd_vars, main_vars, scan_vars >>

\* report_from_matrix(&matrix)
EncodeReportFromMatrix ==
    /\ enc_report = << >>
    /\ enc_report' = << report_from_matrix(enc_scan) >>
    /\ UNCHANGED << enc_scan, enc_hid >>
    /\ UNCHANGED << kbd_vars, main_vars, scan_vars >>

EncNext == EncodeKbHidReport \/ EncodeReportFromMatrix

SpecEnc == EncInit /\ [][EncNext]_vars

(***************************************************************************)
(* The operations of the Keyboard HID device, in any order.                *)
(***************************************************************************)
\* keyboard.set_keyboard_report(r): data is r, ok the value returned
SetKeyboardReport ==
    \E r \in KbdReports :
        LET res == set_keyboard_report(kb_report, r)
        IN  /\ kb_report' = res.report
            /\ committed' = r
            /\ led_calls' = NoCalls
            /\ last' = Call("set_keyboard_report", "", 0, r, res.ret, << >>)
            /\ UNCHANGED leds
            /\ UNCHANGED << enc_vars, main_vars, scan_vars >>

\* keyboard.get_report(report_type, report_id)
GetReport ==
    \E t \in ReportTypes, i \in ReportIds :
        LET res == get_report(kb_report, t, i)
        IN  /\ last' = Call("get_report", t, i, << >>, res.ok, res.bytes)
            /\ led_calls' = NoCalls
            /\ UNCHANGED << kb_report, leds, committed >>
            /\ UNCHANGED << enc_vars, main_vars, scan_vars >>

\* keyboard.set_report(report_type, report_id, data)
SetReport ==
    \E c \in SetReportCalls :
        LET res == set_report(leds, c[1], c[2], c[3])
        IN  /\ leds' = res.leds
            /\ led_calls' = res.calls
            /\ last' = Call("set_report", c[1], c[2], c[3], res.ok, << >>)
            /\ UNCHANGED << kb_report, committed >>
            /\ UNCHANGED << enc_vars, main_vars, scan_vars >>

\* keyboard.leds_mut(): the caller is handed a reference to the collaborator; the
\* device does nothing else.  The reference is live while last is this call: any
\* other operation of the device ends it.
LedsMut ==
    /\ last' = Call("leds_mut", "", 0, << >>, TRUE, << >>)
    /\ led_calls' = NoCalls
    /\ UNCHANGED << kb_report, leds, committed >>
    /\ UNCHANGED << enc_vars, main_vars, scan_vars >>

\* the setter calls made so far through the live reference
SetterCalls(calls) == SumOver(calls, LedNames)

\* the holder of the live reference calls one setter of the collaborator: a step of
\* the device's user, in which no operation of the device runs
LedsSetter ==
    /\ last.op = "leds_mut"
    /\ SetterCalls(led_calls) < MaxSetterCalls
    /\ \E name \in LedNames, status \in BOOLEAN :
           /\ leds' = led_set(leds, name, status)
           /\ led_calls' = led_called(led_calls, name)
    /\ UNCHANGED << kb_report, committed, last >>
    /\ UNCHANGED << enc_vars, main_vars, scan_vars >>

\* the holder of the live reference assigns a whole collaborator, again a step of
\* the device's user
\* (*keyboard.leds_mut() = l): no setter runs, and the new collaborator has had no
\* setter called
LedsAssign ==
    /\ last.op = "leds_mut"
    /\ \E l \in [LedNames -> BOOLEAN] : leds' = l
    /\ led_calls' = NoCalls
    /\ UNCHANGED << kb_report, committed, last >>
    /\ UNCHANGED << enc_vars, main_vars, scan_vars >>

KbdNext ==
    \/ SetKeyboardReport \/ GetReport \/ SetReport \/ LedsMut
    \/ LedsSetter \/ LedsAssign

SpecKbd == KbdInit /\ [][KbdNext]_vars

(***************************************************************************)
(* main.rs scan_keys and key_scan.rs KeyScan::scan, statement by           *)
(* statement.  Both run the same loop over the column pins; KeyScan::scan  *)
(* then hands raw_matrix to Debounce::report_and_tick and returns what     *)
(* the filter returns, scan_keys returns the matrix it sampled.            *)
(***************************************************************************)
\* the switches the model closes during a scan: two share column 0, three row 5
ScanSwitches == { << 0, 0 >>, << 0, 5 >>, << 11, 5 >>, << 13, 5 >> }

ScanHeldSets == SUBSET ScanSwitches

ScanFns == { "scan_keys", "KeyScan_scan" }

\* delay.delay_us(10)
SETTLE_US == 10

\* gpio_col.set_high()
set_high(pins, c) == [pins EXCEPT ![c] = TRUE]

\* a scan that leaves the column driven
set_low_skipped(pins, c) == pins

\* gpio_col.set_low()
set_low(pins, c) == [pins EXCEPT ![c] = FALSE]

\* gpio_row.is_high(): the pull-down input of row r reads high when a driven column
\* reaches it through a closed switch
is_high(pins, sw, r) == \E c \in Cols : pins[c] /\ << c, r >> \in sw

\* the matrices Debounce::report_and_tick may return: the filter is a collaborator
\* whose algorithm is not part of this model
DebounceOutputs == { MatrixOf(h) : h \in SUBSET ScanSwitches }

\* gpio_col.set_high().unwrap()
ScanSetHigh ==
    /\ scan_at = "set_high"
    /\ drive' = set_high(drive, scan_col)
    /\ settle' = 0
    /\ col_log' = Append(col_log, scan_col)
    /\ scan_at' = "delay_high"
    /\ UNCHANGED << scan_fn, scan_col, closed, raw_matrix, debounce_calls, debounce_in,
                    scan_out >>
    /\ UNCHANGED << enc_vars, kbd_vars, main_vars >>

\* delay.delay_us(10), after set_high
ScanDelayHigh ==
    /\ scan_at = "delay_high"
    /\ settle' = settle + SETTLE_US
    /\ scan_at' = "sample"
    /\ UNCHANGED << scan_fn, scan_col, drive, closed, raw_matrix, col_log, debounce_calls,
                    debounce_in, scan_out >>
    /\ UNCHANGED << enc_vars, kbd_vars, main_vars >>

\* the inner loop: *matrix_row = gpio_row.is_high().unwrap(), for every row
ScanSample ==
    /\ scan_at = "sample"
    /\ raw_matrix' = [raw_matrix EXCEPT
                          ![scan_col] = [r \in Rows |-> is_high(drive, closed, r)]]
    /\ scan_at' = "set_low"
    /\ UNCHANGED << scan_fn, scan_col, drive, settle, closed, col_log, debounce_calls,
                    debounce_in, scan_out >>
    /\ UNCHANGED << enc_vars, kbd_vars, main_vars >>

\* gpio_col.set_low().unwrap()
ScanSetLow ==
    /\ scan_at = "set_low"
    /\ drive' = set_low(drive, scan_col)
    /\ settle' = 0
    /\ scan_at' = "delay_low"
    /\ UNCHANGED << scan_fn, scan_col, closed, raw_matrix, col_log, debounce_calls,
                    debounce_in, scan_out >>
    /\ UNCHANGED << enc_vars, kbd_vars, main_vars >>

\* delay.delay_us(10), after set_low; then the next column, or the end of the loop
ScanDelayLow ==
    /\ scan_at = "delay_low"
    /\ settle' = settle + SETTLE_US
    /\ IF scan_col + 1 < NUM_COLS
       THEN scan_col' = scan_col + 1 /\ scan_at' = "set_high"
       ELSE scan_col' = scan_col /\ scan_at' = "return"
    /\ UNCHANGED << scan_fn, drive, closed, raw_matrix, col_log, debounce_calls,
                    debounce_in, scan_out >>
    /\ UNCHANGED << enc_vars, kbd_vars, main_vars >>

\* scan_keys: `matrix`, the sampled matrix, is returned
ScanReturn ==
    /\ scan_at = "return"
    /\ scan_fn = "scan_keys"
    /\ scan_out' = << raw_matrix >>
    /\ scan_at' = "done"
    /\ UNCHANGED << scan_fn, scan_col, drive, settle, closed, raw_matrix, col_log,
                    debounce_calls, debounce_in >>
    /\ UNCHANGED << enc_vars, kbd_vars, main_vars >>

\* KeyScan::scan: let matrix = debounce.report_and_tick(&raw_matrix); Self { matrix }
ScanDebounce ==
    /\ scan_at = "return"
    /\ scan_fn = "KeyScan_scan"
    /\ debounce_calls' = debounce_calls + 1
    /\ debounce_in' = << raw_matrix >>
    /\ \E out \in DebounceOutputs : scan_out' = << out >>
    /\ scan_at' = "done"
    /\ UNCHANGED << scan_fn, scan_col, drive, settle, closed, raw_matrix, col_log >>
    /\ UNCHANGED << enc_vars, kbd_vars, main_vars >>

ScanNext ==
    \/ ScanSetHigh \/ ScanDelayHigh \/ ScanSample \/ ScanSetLow \/ ScanDelayLow
    \/ ScanReturn \/ ScanDebounce

\* the entry of scan_keys or KeyScan::scan: `raw_matrix = [[false; NUM_ROWS]; NUM_COLS]`,
\* every column pin low, any of the switches closed
ScanInit ==
    /\ enc_scan = MatrixOf({})
    /\ enc_hid = << >>
    /\ enc_report = << >>
    /\ kb_report = Keyboard_new_report
    /\ leds = LedsOff
    /\ led_calls = NoCalls
    /\ committed = KbHidReport_default
    /\ last = Call("new", "", 0, << >>, TRUE, << >>)
    /\ MainStart
    /\ scan_fn \in ScanFns
    /\ scan_at = "set_high"
    /\ scan_col = 0
    /\ drive = [c \in Cols |-> FALSE]
    /\ settle = 0
    /\ closed \in ScanHeldSets
    /\ raw_matrix = MatrixOf({})
    /\ col_log = << >>
    /\ debounce_calls = 0
    /\ debounce_in = << >>
    /\ scan_out = << >>

SpecScan == ScanInit /\ [][ScanNext]_vars

(***************************************************************************)
(* main.rs: main, scan_keys, push_mouse_movement and USBCTRL_IRQ.          *)
(***************************************************************************)
\* the switches the model closes while main runs
LoopSwitches == { << 0, 0 >>, << 0, 5 >>, << 11, 5 >> }

LoopHeldSets == { h \in SUBSET LoopSwitches : Cardinality(h) <= MaxLoopHeld }

\* scan_keys as a whole: row r reads high while column c is driven iff switch (c, r)
\* is closed
scan_keys(sw) == [c \in Cols |-> [r \in Rows |-> << c, r >> \in sw]]

\* usb_device::UsbError
UsbErrors ==
    { "WouldBlock", "ParseError", "BufferOverflow", "EndpointOverflow",
      "EndpointMemoryOverflow", "InvalidEndpoint", "Unsupported", "InvalidState" }

\* the test `if matrix[0][0]` of the power-on check
boot_key_wrong_cell(m) == m[0][5]

boot_key_held(m) == m[0][0]

\* main with the interrupt unmasked right after USB_BUS is set
stmt_after_unmask_early(at) ==
    CASE at = "init_usb_bus" -> "unmask"
      [] at = "unmask" -> "init_usb_hid"
      [] at = "init_usb_hid" -> "init_usb_device"
      [] at = "init_usb_device" -> "start_timer"
      [] at = "start_timer" -> "power_on_scan"
      [] at = "power_on_scan" -> "boot_check"
      [] at = "boot_check" -> "wait"

\* the statements of main up to the loop, in program order: the one after `at`
stmt_after(at) ==
    CASE at = "init_usb_bus" -> "init_usb_hid"
      [] at = "init_usb_hid" -> "init_usb_device"
      [] at = "init_usb_device" -> "start_timer"
      [] at = "start_timer" -> "power_on_scan"
      [] at = "power_on_scan" -> "boot_check"
      [] at = "boot_check" -> "unmask"
      [] at = "unmask" -> "wait"

\* a loop that scans whether or not the countdown has run out
wait_always_ok(n) == TRUE

\* scan_countdown.wait().is_ok(): a period has run out that wait() has not answered
wait_is_ok(n) == n > 0

\* a handler that a critical section does not keep out
irq_taken_in_critical_section(unmasked, in_cs) == unmasked

\* USBCTRL_IRQ is taken when it is unmasked in the NVIC and main is not inside
\* critical_section::with, which disables interrupts
irq_taken(unmasked, in_cs) == unmasked /\ ~in_cs

\* a loop that unwraps the result of push_mouse_movement
after_match_unwrap(result) == IF result = "Ok" THEN "wait" ELSE "panic"

\* where main goes after `match push_mouse_movement(report)`: every arm ends the
\* iteration
after_match(result) == "wait"

\* USB_BUS = Some(bus_allocator)
InitUsbBus ==
    /\ pc = "init_usb_bus"
    /\ usb_bus' = TRUE
    /\ pc' = stmt_after("init_usb_bus")
    /\ UNCHANGED << usb_hid, usb_device, period, irq_unmasked, power_on_matrix,
                    loop_matrix, loop_report, prev_matrix, prev_report, ep_in, push_ret,
                    pull_ret, elapsed, cs, prev_push, cycle_scans, cycle_pushes >>
    /\ UNCHANGED << enc_vars, kbd_vars, scan_vars >>

\* USB_HID = Some(hid_endpoint)
InitUsbHid ==
    /\ pc = "init_usb_hid"
    /\ usb_hid' = TRUE
    /\ pc' = stmt_after("init_usb_hid")
    /\ UNCHANGED << usb_bus, usb_device, period, irq_unmasked, power_on_matrix,
                    loop_matrix, loop_report, prev_matrix, prev_report, ep_in, push_ret,
                    pull_ret, elapsed, cs, prev_push, cycle_scans, cycle_pushes >>
    /\ UNCHANGED << enc_vars, kbd_vars, scan_vars >>

\* USB_DEVICE = Some(keyboard_usb_device)
InitUsbDevice ==
    /\ pc = "init_usb_device"
    /\ usb_device' = TRUE
    /\ pc' = stmt_after("init_usb_device")
    /\ UNCHANGED << usb_bus, usb_hid, period, irq_unmasked, power_on_matrix, loop_matrix,
                    loop_report, prev_matrix, prev_report, ep_in, push_ret, pull_ret,
                    elapsed, cs, prev_push, cycle_scans, cycle_pushes >>
    /\ UNCHANGED << enc_vars, kbd_vars, scan_vars >>

\* scan_countdown.start(MicrosDurationU32::millis(500))
StartTimer ==
    /\ pc = "start_timer"
    /\ period' = 500
    /\ elapsed' = 0
    /\ pc' = stmt_after("start_timer")
    /\ UNCHANGED << usb_bus, usb_hid, usb_device, irq_unmasked, power_on_matrix,
                    loop_matrix, loop_report, prev_matrix, prev_report, ep_in, push_ret,
                    pull_ret, cs, prev_push, cycle_scans, cycle_pushes >>
    /\ UNCHANGED << enc_vars, kbd_vars, scan_vars >>

\* the hardware timer: one more period of the running countdown runs out
TimerExpires ==
    /\ period > 0
    /\ pc \notin { "bootloader", "panic" }
    /\ elapsed < MaxPending
    /\ elapsed' = elapsed + 1
    /\ UNCHANGED << pc, usb_bus, usb_hid, usb_device, period, irq_unmasked,
                    power_on_matrix, loop_matrix, loop_report, prev_matrix, prev_report,
                    ep_in, push_ret, pull_ret, cs, prev_push, cycle_scans, cycle_pushes >>
    /\ UNCHANGED << enc_vars, kbd_vars, scan_vars >>

\* the entry of scan_keys: the local matrix all false, the switches as they are
\* for this scan
scan_keys_entry(sw) ==
    /\ scan_fn' = "scan_keys"
    /\ scan_at' = "set_high"
    /\ scan_col' = 0
    /\ settle' = 0
    /\ closed' = sw
    /\ raw_matrix' = MatrixOf({})
    /\ col_log' = << >>
    /\ scan_out' = << >>
    /\ UNCHANGED << drive, debounce_calls, debounce_in >>

\* scan_keys has returned and its locals are gone
scan_keys_exit ==
    /\ scan_at' = "idle"
    /\ scan_col' = 0
    /\ settle' = 0
    /\ closed' = {}
    /\ raw_matrix' = MatrixOf({})
    /\ col_log' = << >>
    /\ scan_out' = << >>
    /\ UNCHANGED << scan_fn, drive, debounce_calls, debounce_in >>

\* scan_keys(rows, cols, &mut delay) is called, before the loop
PowerOnScan ==
    /\ pc = "power_on_scan"
    /\ \E sw \in LoopHeldSets : scan_keys_entry(sw)
    /\ pc' = "power_on_scan_keys"
    /\ UNCHANGED << usb_bus, usb_hid, usb_device, period, irq_unmasked, power_on_matrix,
                    loop_matrix, loop_report, prev_matrix, prev_report, ep_in, push_ret,
                    pull_ret, elapsed, cs, prev_push, cycle_scans, cycle_pushes >>
    /\ UNCHANGED << enc_vars, kbd_vars >>

\* let matrix = ..: the scan before the loop has returned
PowerOnScanned ==
    /\ pc = "power_on_scan_keys"
    /\ scan_at = "done"
    /\ power_on_matrix' = scan_out
    /\ scan_keys_exit
    /\ pc' = stmt_after("power_on_scan")
    /\ UNCHANGED << usb_bus, usb_hid, usb_device, period, irq_unmasked, loop_matrix,
                    loop_report, prev_matrix, prev_report, ep_in, push_ret, pull_ret,
                    elapsed, cs, prev_push, cycle_scans, cycle_pushes >>
    /\ UNCHANGED << enc_vars, kbd_vars >>

\* if matrix[0][0] { reset_to_usb_boot(0, 0) }: the ROM call resets the chip into
\* the bootloader, and main goes no further
BootCheck ==
    /\ pc = "boot_check"
    /\ pc' = IF boot_key_held(power_on_matrix[1]) THEN "bootloader"
             ELSE stmt_after("boot_check")
    /\ UNCHANGED << usb_bus, usb_hid, usb_device, period, irq_unmasked, power_on_matrix,
                    loop_matrix, loop_report, prev_matrix, prev_report, ep_in, push_ret,
                    pull_ret, elapsed, cs, prev_push, cycle_scans, cycle_pushes >>
    /\ UNCHANGED << enc_vars, kbd_vars, scan_vars >>

\* pac::NVIC::unmask(pac::Interrupt::USBCTRL_IRQ)
Unmask ==
    /\ pc = "unmask"
    /\ irq_unmasked' = TRUE
    /\ pc' = stmt_after("unmask")
    /\ UNCHANGED << usb_bus, usb_hid, usb_device, period, power_on_matrix, loop_matrix,
                    loop_report, prev_matrix, prev_report, ep_in, push_ret, pull_ret,
                    elapsed, cs, prev_push, cycle_scans, cycle_pushes >>
    /\ UNCHANGED << enc_vars, kbd_vars, scan_vars >>

\* if scan_countdown.wait().is_ok(): wait() answers one period that has run out,
\* and the countdown goes on with the same period
TimerElapsed ==
    /\ pc = "wait"
    /\ wait_is_ok(elapsed)
    /\ elapsed' = IF elapsed > 0 THEN elapsed - 1 ELSE 0
    /\ cycle_scans' = 0
    /\ cycle_pushes' = 0
    /\ pc' = "scan"
    /\ UNCHANGED << usb_bus, usb_hid, usb_device, period, irq_unmasked, power_on_matrix,
                    loop_matrix, loop_report, prev_matrix, prev_report, ep_in, push_ret,
                    pull_ret, cs, prev_push >>
    /\ UNCHANGED << enc_vars, kbd_vars, scan_vars >>

\* scan_keys(rows, cols, &mut delay) is called, in the loop: a new cycle begins, and
\* what the cycle before scanned and encoded is remembered as prev_matrix and
\* prev_report
ScanKeys ==
    /\ pc = "scan"
    /\ \E sw \in LoopHeldSets : scan_keys_entry(sw)
    /\ prev_matrix' = loop_matrix
    /\ prev_report' = loop_report
    /\ cycle_scans' = cycle_scans + 1
    /\ pc' = "scan_keys"
    /\ UNCHANGED << usb_bus, usb_hid, usb_device, period, irq_unmasked, power_on_matrix,
                    loop_matrix, loop_report, ep_in, push_ret, pull_ret, elapsed, cs,
                    prev_push, cycle_pushes >>
    /\ UNCHANGED << enc_vars, kbd_vars >>

\* let matrix = ..: the scan of the loop has returned; there is no report of this
\* cycle yet
ScanKeysScanned ==
    /\ pc = "scan_keys"
    /\ scan_at = "done"
    /\ loop_matrix' = scan_out
    /\ loop_report' = << >>
    /\ scan_keys_exit
    /\ pc' = "encode"
    /\ UNCHANGED << usb_bus, usb_hid, usb_device, period, irq_unmasked, power_on_matrix,
                    prev_matrix, prev_report, ep_in, push_ret, pull_ret, elapsed, cs,
                    prev_push, cycle_scans, cycle_pushes >>
    /\ UNCHANGED << enc_vars, kbd_vars >>

\* let report = report_from_matrix(&matrix)
Encode ==
    /\ pc = "encode"
    /\ loop_report' = << report_from_matrix(loop_matrix[1]) >>
    /\ pc' = "push"
    /\ UNCHANGED << usb_bus, usb_hid, usb_device, period, irq_unmasked, power_on_matrix,
                    loop_matrix, prev_matrix, prev_report, ep_in, push_ret, pull_ret,
                    elapsed, cs, prev_push, cycle_scans, cycle_pushes >>
    /\ UNCHANGED << enc_vars, kbd_vars, scan_vars >>

\* push_mouse_movement(report): critical_section::with disables interrupts and
\* USB_HID.as_mut() is looked at; when it is None the closure is not run and the
\* unwrap() after the critical section panics
PushMouseMovement ==
    /\ pc = "push"
    /\ IF usb_hid
       THEN cs' = TRUE /\ pc' = "push_input"
       ELSE cs' = FALSE /\ pc' = "panic"
    /\ UNCHANGED << usb_bus, usb_hid, usb_device, period, irq_unmasked, power_on_matrix,
                    loop_matrix, loop_report, prev_matrix, prev_report, ep_in, push_ret,
                    pull_ret, elapsed, prev_push, cycle_scans, cycle_pushes >>
    /\ UNCHANGED << enc_vars, kbd_vars, scan_vars >>

\* hid.push_input(&report), whose result is dropped: it fills the IN endpoint
\* buffer when that is free and would block when it is not
PushInput ==
    /\ pc = "push_input"
    /\ IF ep_in = << >>
       THEN ep_in' = << WireBytes(loop_report[1]) >> /\ push_ret' = "Ok"
       ELSE ep_in' = ep_in /\ push_ret' = "WouldBlock"
    /\ cycle_pushes' = cycle_pushes + 1
    /\ pc' = "pull_raw_output"
    /\ UNCHANGED << usb_bus, usb_hid, usb_device, period, irq_unmasked, power_on_matrix,
                    loop_matrix, loop_report, prev_matrix, prev_report, pull_ret, elapsed,
                    cs, prev_push, cycle_scans >>
    /\ UNCHANGED << enc_vars, kbd_vars, scan_vars >>

\* hid.pull_raw_output(&mut [0; 64]), whose result push_mouse_movement returns: Ok
\* when the host has sent an output report, an error when it has not; the critical
\* section ends
PullRawOutput ==
    /\ pc = "pull_raw_output"
    /\ pull_ret' \in { "Ok" } \cup UsbErrors
    /\ cs' = FALSE
    /\ pc' = "match"
    /\ UNCHANGED << usb_bus, usb_hid, usb_device, period, irq_unmasked, power_on_matrix,
                    loop_matrix, loop_report, prev_matrix, prev_report, ep_in, push_ret,
                    elapsed, prev_push, cycle_scans, cycle_pushes >>
    /\ UNCHANGED << enc_vars, kbd_vars, scan_vars >>

\* match push_mouse_movement(report): Ok restarts the countdown with 8 ms, an error
\* is logged
MatchResult ==
    /\ pc = "match"
    /\ period' = IF pull_ret = "Ok" THEN 8 ELSE period
    /\ elapsed' = IF pull_ret = "Ok" THEN 0 ELSE elapsed
    /\ prev_push' = push_ret
    /\ push_ret' = "none"
    /\ pull_ret' = "none"
    /\ pc' = after_match(pull_ret)
    /\ UNCHANGED << usb_bus, usb_hid, usb_device, irq_unmasked, power_on_matrix,
                    loop_matrix, loop_report, prev_matrix, prev_report, ep_in, cs,
                    cycle_scans, cycle_pushes >>
    /\ UNCHANGED << enc_vars, kbd_vars, scan_vars >>

\* the interrupt handler, between two steps of main: USB_DEVICE and USB_HID are
\* unwrapped, then usb_dev.poll(&mut [usb_hid]), by which the host takes what the IN
\* endpoint buffer holds
USBCTRL_IRQ ==
    /\ irq_taken(irq_unmasked, cs)
    /\ pc \notin { "bootloader", "panic" }
    /\ IF usb_device /\ usb_hid
       THEN ep_in' = << >> /\ pc' = pc
       ELSE ep_in' = ep_in /\ pc' = "panic"
    /\ UNCHANGED << usb_bus, usb_hid, usb_device, period, irq_unmasked, power_on_matrix,
                    loop_matrix, loop_report, prev_matrix, prev_report, push_ret, pull_ret,
                    elapsed, cs, prev_push, cycle_scans, cycle_pushes >>
    /\ UNCHANGED << enc_vars, kbd_vars, scan_vars >>

MainNext ==
    \/ InitUsbBus \/ InitUsbHid \/ InitUsbDevice \/ StartTimer \/ TimerExpires
    \/ PowerOnScan \/ PowerOnScanned \/ BootCheck \/ Unmask
    \/ TimerElapsed \/ ScanKeys \/ ScanKeysScanned \/ Encode
    \/ ScanSetHigh \/ ScanDelayHigh \/ ScanSample \/ ScanSetLow \/ ScanDelayLow
    \/ ScanReturn
    \/ PushMouseMovement \/ PushInput \/ PullRawOutput \/ MatchResult
    \/ USBCTRL_IRQ

\* main from reset, with the encoder inputs, the Keyboard device and the scanner idle
MainInit ==
    /\ enc_scan = MatrixOf({})
    /\ enc_hid = << >>
    /\ enc_report = << >>
    /\ kb_report = Keyboard_new_report
    /\ leds = LedsOff
    /\ led_calls = NoCalls
    /\ committed = KbHidReport_default
    /\ last = Call("new", "", 0, << >>, TRUE, << >>)
    /\ MainStart
    /\ ScanStart

SpecMain == MainInit /\ [][MainNext]_vars

(***************************************************************************)
(* What the claims say of a matrix, stated on the set of asserted cells.   *)
(***************************************************************************)
\* the table the layer-select cell (column 0, row 5) selects
SelectedTable(m) == IF m[0][5] THEN FN_LAYER_MAPPING ELSE NORMAL_LAYER_MAPPING

\* the asserted cells of m, and the rank of a cell in column-major order
AssertedSet(m) == { cell \in Cols \X Rows : m[cell[1]][cell[2]] }
Before(a, b) == a[1] < b[1] \/ (a[1] = b[1] /\ a[2] < b[2])
Rank(m, cell) == 1 + Cardinality({ other \in AssertedSet(m) : Before(other, cell) })

\* identities of the asserted cells of m under table t, in column-major order
AssertedCodes(m, t) ==
    [j \in 1 .. Cardinality(AssertedSet(m)) |->
        LET cell == CHOOSE x \in AssertedSet(m) : Rank(m, x) = j
        IN  t[cell[1] + 1][cell[2] + 1]]

IsSentinel(kc) == kc \in { ErrorRollOver, PostFail, ErrorUndefined }
IsModifierKey(kc) == kc \in 224 .. 231
IsNormalKey(kc) == kc # Empty /\ ~IsSentinel(kc) /\ ~IsModifierKey(kc)

\* the asserted normal keys of m in scan order
NormalCodes(m) == SelectSeq(AssertedCodes(m, SelectedTable(m)), IsNormalKey)

\* the asserted sentinels of m in scan order
SentinelCodes(m) == SelectSeq(AssertedCodes(m, SelectedTable(m)), IsSentinel)

RECURSIVE SumOf(_)
SumOf(S) == IF S = {} THEN 0 ELSE LET x == CHOOSE y \in S : TRUE IN x + SumOf(S \ { x })

\* the masks of the asserted modifiers are distinct single bits: their OR is their sum
ModifierByte(m) ==
    LET codes == AssertedCodes(m, SelectedTable(m))
    IN  SumOf({ Pow2(codes[j] - 224) : j \in { k \in DOMAIN codes : IsModifierKey(codes[k]) } })

\* the codes packed from slot 0, the remaining slots zero
Packed(codes) == [j \in 1 .. 6 |-> IF j <= Len(codes) THEN codes[j] ELSE 0]

\* the report claim C1 describes for m
PackedReport(m) == << ModifierByte(m), 0 >> \o Packed(NormalCodes(m))

\* the key slots of an 8-byte report
KeySlots(bytes) == SubSeq(bytes, 3, 8)

AllRollOver == << ErrorRollOver, ErrorRollOver, ErrorRollOver,
                 ErrorRollOver, ErrorRollOver, ErrorRollOver >>

(***************************************************************************)
(* C1: with at most 6 asserted normal keys, any modifiers or empty cells   *)
(* and no sentinel, the encoded report is the OR of the modifier masks,    *)
(* a zero byte, and the normal keys in scan order packed from slot 0.      *)
(***************************************************************************)
C1_Case(m) == Len(NormalCodes(m)) <= 6 /\ SentinelCodes(m) = << >>

\* C1 for the encoder of key_scan.rs
C1_KbHidReport ==
    (enc_hid # << >> /\ C1_Case(enc_scan)) => enc_hid = PackedReport(enc_scan)

\* C1 as claimed, for every encoded report
C1_Claim ==
    /\ C1_KbHidReport
    /\ (enc_report # << >> /\ C1_Case(enc_scan))
           => WireBytes(enc_report[1]) = PackedReport(enc_scan)

(***************************************************************************)
(* C2: with 7 or more asserted normal keys, all six key slots of the       *)
(* encoded report are ErrorRollOver.                                       *)
(***************************************************************************)
C2_Case(m) == Len(NormalCodes(m)) >= 7

\* C2 for the encoder of key_scan.rs, when no sentinel key is asserted
C2_KbHidReport ==
    (enc_hid # << >> /\ C2_Case(enc_scan) /\ SentinelCodes(enc_scan) = << >>)
        => KeySlots(enc_hid) = AllRollOver

\* C2 as claimed, for the report the firmware encodes
C2_Claim ==
    (enc_report # << >> /\ C2_Case(enc_scan))
        => KeySlots(WireBytes(enc_report[1])) = AllRollOver

(***************************************************************************)
(* C4: set_report(Output, 0, one byte d) succeeds and sets num lock, caps  *)
(* lock, scroll lock, compose and kana to bits 0..4 of d, each setter      *)
(* called once; bits 5..7 of d change nothing; d = 1 lights num lock       *)
(* alone and d = 16 kana alone.                                            *)
(***************************************************************************)
OnlyLed(name) == [n \in LedNames |-> n = name]

\* the indicators the low five bits v of the payload stand for
LedsOfBits(v) ==
    [num_lock |-> v % 2 = 1,
     caps_lock |-> (v \div 2) % 2 = 1,
     scroll_lock |-> (v \div 4) % 2 = 1,
     compose |-> (v \div 8) % 2 = 1,
     kana |-> (v \div 16) % 2 = 1]

AcceptedArgs(c) == c.report_type = "Output" /\ c.report_id = 0 /\ Len(c.data) = 1

C4_LedDecode ==
    (last.op = "set_report" /\ AcceptedArgs(last)) =>
        /\ last.ok
        /\ leds = LedsOfBits(last.data[1] % 32)
        /\ led_calls = [n \in LedNames |-> 1]
        /\ (last.data[1] = 1 => leds = OnlyLed("num_lock"))
        /\ (last.data[1] = 16 => leds = OnlyLed("kana"))

\* an accepted payload with bits 4..7 set: kana alone is lit
C4_Witness ==
    /\ last.op = "set_report"
    /\ last.ok
    /\ last.data = << 240 >>
    /\ leds = OnlyLed("kana")

(***************************************************************************)
(* C5: set_report with a type other than Output, an id other than 0 or a   *)
(* payload length other than 1 fails and leaves the LED state and the      *)
(* stored report as they were; across the operations of the device         *)
(* (set_keyboard_report, get_report, set_report, leds_mut) the LED state   *)
(* changes only in an accepted set_report.                                 *)
(***************************************************************************)
C5_RejectedStep ==
    (last'.op = "set_report" /\ ~AcceptedArgs(last')) =>
        /\ ~last'.ok
        /\ leds' = leds
        /\ kb_report' = kb_report

\* a step in which no operation of the device runs: the holder of the reference
\* that leds_mut handed out writes to its collaborator
UserWrite ==
    /\ last.op = "leds_mut"
    /\ last' = last
    /\ led_calls' # NoCalls \/ leds' # leds

C5_LedChangeStep ==
    (leds' # leds /\ ~UserWrite)
        => (last'.op = "set_report" /\ last'.ok /\ AcceptedArgs(last'))

\* no operation of the device but set_report calls a setter of the collaborator
C5_SetterStep ==
    (led_calls' # NoCalls /\ ~UserWrite) => last'.op = "set_report"

\* leds_mut itself calls no setter and changes nothing
C5_LedsMutStep ==
    (last'.op = "leds_mut" /\ last.op # "leds_mut")
        => (leds' = leds /\ led_calls' = NoCalls /\ kb_report' = kb_report)

C5_OnlyAcceptedSetReport ==
    /\ [](last.op = "set_report" => (last.ok <=> AcceptedArgs(last)))
    /\ [][C5_RejectedStep /\ C5_LedChangeStep /\ C5_SetterStep /\ C5_LedsMutStep]_vars

\* a rejected set_report (report id 1) after indicators were lit: they stay lit
C5_Witness ==
    /\ last.op = "set_report"
    /\ ~last.ok
    /\ last.report_type = "Output"
    /\ last.report_id = 1
    /\ last.data = << 31 >>
    /\ leds = OnlyLed("caps_lock")
    /\ kb_report # KbHidReport_default

(***************************************************************************)
(* C6: get_report(Input, any id) returns the 8 bytes of the last report    *)
(* committed (all zero before any commit), any other type fails, and       *)
(* get_report changes neither the stored report nor the LED state.         *)
(***************************************************************************)
C6_Returned ==
    /\ kb_report = committed
    /\ last.op = "get_report" =>
           IF last.report_type = "Input"
           THEN last.ok /\ last.bytes = committed /\ Len(last.bytes) = 8
           ELSE ~last.ok

C6_GetReport ==
    /\ [] C6_Returned
    /\ [][last'.op = "get_report" => (kb_report' = kb_report /\ leds' = leds)]_vars

\* get_report(Input, 1) after a non-zero report was committed and indicators lit
C6_Witness ==
    /\ last.op = "get_report"
    /\ last.report_type = "Input"
    /\ last.report_id = 1
    /\ last.ok
    /\ last.bytes # KbHidReport_default
    /\ last.bytes = committed
    /\ leds # LedsOff

(***************************************************************************)
(* C7: set_keyboard_report(r) returns true exactly when r differs from the *)
(* report held; the report held is r afterwards; the Leds collaborator is  *)
(* not touched; a new device holds the all-zero report.                    *)
(***************************************************************************)
C7_Step ==
    (last'.op = "set_keyboard_report") =>
        /\ last'.ok <=> (last'.data # kb_report)
        /\ kb_report' = last'.data
        /\ leds' = leds
        /\ led_calls' = NoCalls

C7_SetKeyboardReport ==
    /\ [](last.op = "new" => kb_report = << 0, 0, 0, 0, 0, 0, 0, 0 >>)
    /\ [][C7_Step]_vars

\* a commit that changed the held report, with indicators lit
C7_Witness ==
    /\ last.op = "set_keyboard_report"
    /\ last.ok
    /\ kb_report = last.data
    /\ kb_report # KbHidReport_default
    /\ leds # LedsOff

(***************************************************************************)
(* C3: when two consecutive scan cycles encode byte-identical reports, no  *)
(* push is attempted for the second.                                       *)
(***************************************************************************)
C3_Claim ==
    (pc = "match" /\ prev_report # << >> /\ prev_report = loop_report) => push_ret = "none"

(***************************************************************************)
(* C8: when cell (column 0, row 0) is asserted in the scan made before the *)
(* loop, main enters the bootloader and stays there: the USB interrupt is  *)
(* never unmasked and the loop body never runs; when it is not asserted,   *)
(* main does not enter the bootloader and goes on to the loop.             *)
(***************************************************************************)
LoopPcs ==
    { "wait", "scan", "scan_keys", "encode", "push", "push_input", "pull_raw_output",
      "match" }

C8_BootloaderEntry ==
    (power_on_matrix # << >> /\ pc # "boot_check") =>
        IF power_on_matrix[1][0][0]
        THEN /\ pc = "bootloader"
             /\ ~irq_unmasked
             /\ loop_matrix = << >> /\ loop_report = << >> /\ ep_in = << >>
        ELSE pc \in { "unmask" } \cup LoopPcs

\* the bootloader entered with the layer-select cell asserted as well
C8_Witness ==
    /\ pc = "bootloader"
    /\ power_on_matrix[1][0][0]
    /\ power_on_matrix[1][0][5]
    /\ ~irq_unmasked

(***************************************************************************)
(* C9: in every cycle the report is the encoding of that cycle's matrix    *)
(* under the FN table iff its layer-select cell (column 0, row 5) is       *)
(* asserted and under the Normal table otherwise, whatever the cycle       *)
(* before was.                                                             *)
(***************************************************************************)
\* what report_from_matrix makes of m under table t: the OR of the modifier masks,
\* and the first six identities that are no modifiers
TableReport(m, t) ==
    LET codes == AssertedCodes(m, t)
        mods == { codes[j] : j \in { k \in DOMAIN codes : IsModifierKey(codes[k]) } }
        others == SelectSeq(codes, LAMBDA kc : ~IsModifierKey(kc))
    IN  << SumOf({ Pow2(kc - 224) : kc \in mods }), 0 >> \o Packed(others)

C9_LayerOfThisCycle ==
    (loop_report # << >>) =>
        WireBytes(loop_report[1]) =
            TableReport(loop_matrix[1],
                IF loop_matrix[1][0][5] THEN FN_LAYER_MAPPING ELSE NORMAL_LAYER_MAPPING)

\* layer-select released while the key at (11, 5) stays held: Left, not Home
C9_Witness ==
    /\ prev_matrix # << >> /\ prev_report # << >> /\ loop_report # << >>
    /\ prev_matrix[1][0][5] /\ prev_matrix[1][11][5]
    /\ 74 \in { prev_report[1].keycodes[j] : j \in 1 .. 6 }
    /\ ~loop_matrix[1][0][5] /\ loop_matrix[1][11][5]
    /\ loop_report[1].keycodes = << 80, 0, 0, 0, 0, 0 >>

(***************************************************************************)
(* C11: in every scan cycle the complete raw matrix is handed to the       *)
(* debounce filter exactly once, after all columns have been sampled, and  *)
(* every report encoded and pushed in that cycle is computed from the      *)
(* matrix the filter returned, never from the raw sample.                  *)
(***************************************************************************)
\* C11 for KeyScan::scan of key_scan.rs: one call, after the last column, with the
\* whole sampled matrix, and the filter's matrix is what is returned
C11_KeyScan ==
    /\ (scan_at # "done") => (debounce_calls = 0 /\ scan_out = << >>)
    /\ (scan_fn = "KeyScan_scan" /\ scan_at = "done") =>
           /\ debounce_calls = 1
           /\ Len(col_log) = NUM_COLS
           /\ debounce_in = << scan_keys(closed) >>
           /\ scan_out[1] \in DebounceOutputs

\* C11 as claimed, for the cycles of main's loop: a report exists only once the
\* filter has been given the cycle's raw matrix
C11_Claim ==
    (loop_report # << >>) => (debounce_calls >= 1 /\ debounce_in = loop_matrix)

(***************************************************************************)
(* C12: once the poll loop is entered main never leaves it and never       *)
(* panics: whatever push_input and pull_raw_output returned (Ok,           *)
(* WouldBlock, or any other UsbError), the next step of main after the     *)
(* match is the wait for the next timer period.                            *)
(***************************************************************************)
C12_Step ==
    /\ (pc \in LoopPcs) => (pc' \in LoopPcs)
    /\ (pc = "match" /\ pc' # pc)
           => (pc' = "wait" /\ push_ret' = "none" /\ pull_ret' = "none")

C12_LoopGoesOn ==
    /\ [](pc # "panic")
    /\ [](pc = "match" => (push_ret \in { "Ok", "WouldBlock" }
                           /\ pull_ret \in { "Ok" } \cup UsbErrors))
    /\ [][C12_Step]_vars

\* a second cycle reaches its match with a would-block push and a hard failure,
\* the countdown still on 500 ms: the cycle before ended with an error as well
C12_Witness ==
    /\ pc = "match"
    /\ prev_report # << >>
    /\ period = 500
    /\ prev_push = "Ok"
    /\ push_ret = "WouldBlock"
    /\ pull_ret = "InvalidState"

(***************************************************************************)
(* C13: when exactly one asserted cell maps to a sentinel (ErrorRollOver,  *)
(* PostFail, ErrorUndefined), the six key slots of the report all hold     *)
(* that sentinel, whatever normal keys are asserted before or after it,    *)
(* and the modifier byte is the OR of the masks of all asserted modifiers. *)
(***************************************************************************)
C13_Case(m) == Len(SentinelCodes(m)) = 1

C13_Slots(m) == [j \in 1 .. 6 |-> SentinelCodes(m)[1]]

\* the modifier half of C13, for both encoders
C13_ModifiersKept ==
    /\ (enc_hid # << >> /\ C13_Case(enc_scan)) => enc_hid[1] = ModifierByte(enc_scan)
    /\ (enc_report # << >> /\ C13_Case(enc_scan))
           => enc_report[1].modifier = ModifierByte(enc_scan)

\* C13 for the encoder of key_scan.rs when no normal key is asserted after the
\* sentinel
C13_KbHidReport ==
    (/\ enc_hid # << >>
     /\ C13_Case(enc_scan)
     /\ ~IsNormalKey(AssertedCodes(enc_scan, SelectedTable(enc_scan))
                        [Cardinality(AssertedSet(enc_scan))]))
        => KeySlots(enc_hid) = C13_Slots(enc_scan)

\* C13 as claimed, for both encoders
C13_Claim ==
    /\ (enc_hid # << >> /\ C13_Case(enc_scan))
           => (KeySlots(enc_hid) = C13_Slots(enc_scan)
               /\ enc_hid[1] = ModifierByte(enc_scan))
    /\ (enc_report # << >> /\ C13_Case(enc_scan))
           => (enc_report[1].keycodes = C13_Slots(enc_scan)
               /\ enc_report[1].modifier = ModifierByte(enc_scan))

(***************************************************************************)
(* C14: a cycle attempts a transmission unless its report is               *)
(* byte-identical to the last report successfully queued: after a push     *)
(* that succeeded an identical report is not pushed again, and after a     *)
(* push that failed the same report is pushed again in the next cycle.     *)
(***************************************************************************)
\* the retry half of C14: the cycle after a failed push pushes again
C14_RetryAfterFailure ==
    (pc = "match" /\ prev_push = "WouldBlock" /\ prev_report = loop_report)
        => push_ret \in { "Ok", "WouldBlock" }

\* C14 as claimed, for two consecutive cycles that encode the same report
C14_Claim ==
    (pc = "match" /\ prev_report # << >> /\ prev_report = loop_report) =>
        IF prev_push = "Ok" THEN push_ret = "none" ELSE push_ret # "none"

(***************************************************************************)
(* C15: when push_input would block, main does not wait; the would-block   *)
(* outcome of that push is what the loop matches on; the next period       *)
(* pushes the encoding of that period's matrix.                            *)
(***************************************************************************)
\* the retry half of C15: what a push queues is the encoding of the matrix of the
\* cycle it is made in
C15_Step ==
    (pc = "push_input" /\ pc' = "pull_raw_output") =>
        IF ep_in = << >>
        THEN ep_in' = << WireBytes(report_from_matrix(loop_matrix[1])) >>
        ELSE ep_in' = ep_in /\ push_ret' = "WouldBlock"

C15_NextPeriodEncodes == [][C15_Step]_vars

\* C15 as claimed: the result the loop matches on is the would-block of the push
C15_Claim ==
    (pc = "match" /\ push_ret = "WouldBlock") => pull_ret = "WouldBlock"

(***************************************************************************)
(* C16: the countdown starts with 500 ms; after every push attempt that    *)
(* resolves with success or with would-block the loop restarts it with     *)
(* 8 ms, so every cycle after the first runs on the 8 ms period.           *)
(***************************************************************************)
\* what the loop does: 500 ms until a cycle's result is Ok, 8 ms from then on
C16_Step ==
    (pc = "match" /\ pc' = "wait") =>
        period' = IF pull_ret = "Ok" THEN 8 ELSE period

C16_RearmOnOk ==
    /\ []((period # 0 /\ loop_matrix = << >>) => period = 500)
    /\ [](period \in { 0, 8, 500 })
    /\ [][C16_Step]_vars

\* C16 as claimed
C16_ClaimStep ==
    (pc = "match" /\ pc' = "wait" /\ push_ret \in { "Ok", "WouldBlock" })
        => period' = 8

C16_Claim ==
    /\ []((period # 0 /\ loop_matrix = << >>) => period = 500)
    /\ []((pc = "scan" /\ loop_matrix # << >>) => period = 8)
    /\ [][C16_ClaimStep]_vars

(***************************************************************************)
(* C17: at most one scan and at most one push attempt per elapsed timer    *)
(* period: main leaves the wait only by answering one period that has run  *)
(* out, and between two such answers it scans at most once and pushes at   *)
(* most once, whatever the previous push returned.                         *)
(***************************************************************************)
C17_State ==
    /\ cycle_scans <= 1
    /\ cycle_pushes <= cycle_scans
    /\ (pc \in { "scan_keys", "encode", "push", "push_input" })
           => (cycle_scans = 1 /\ cycle_pushes = 0)
    /\ (pc \in { "pull_raw_output", "match" }) => (cycle_scans = 1 /\ cycle_pushes = 1)

C17_Step ==
    /\ (pc = "wait" /\ pc' # "wait") =>
           /\ pc' = "scan"
           /\ elapsed >= 1
           /\ elapsed' = elapsed - 1
           /\ cycle_scans' = 0 /\ cycle_pushes' = 0
    /\ (cycle_scans' > cycle_scans) => (pc = "scan" /\ cycle_scans = 0)
    /\ (cycle_pushes' > cycle_pushes) => (pc = "push_input" /\ cycle_pushes = 0)

C17_OnePushPerPeriod == [] C17_State /\ [][C17_Step]_vars

\* the cycle after a would-block push has pushed once, while a further period has
\* already run out
C17_Witness ==
    /\ pc = "match"
    /\ prev_push = "WouldBlock"
    /\ cycle_scans = 1 /\ cycle_pushes = 1
    /\ elapsed >= 1

(***************************************************************************)
(* C18: main touches USB_HID only inside critical_section::with, and the   *)
(* interrupt handler's poll never runs between the start and the end of    *)
(* such an access.                                                         *)
(***************************************************************************)
\* main is inside the critical section exactly while it is at push_input or at
\* pull_raw_output
C18_State == cs <=> (pc \in { "push_input", "pull_raw_output" })

\* the endpoint buffer is filled by main inside the critical section and emptied
\* by the handler outside it
C18_Step ==
    /\ (ep_in' # ep_in /\ ep_in' # << >>) => (cs /\ pc = "push_input")
    /\ (ep_in # << >> /\ ep_in' = << >>) => (~cs /\ pc' = pc)

C18_MutualExclusion == [] C18_State /\ [][C18_Step]_vars

\* main inside the critical section with the endpoint still full and the interrupt
\* unmasked: the handler has to wait
C18_Witness ==
    /\ pc = "pull_raw_output"
    /\ cs
    /\ irq_unmasked
    /\ ep_in # << >>
    /\ push_ret = "WouldBlock"

(***************************************************************************)
(* C19: USBCTRL_IRQ is unmasked only after USB_BUS, USB_HID and            *)
(* USB_DEVICE are set and after the power-on bootloader check, so neither  *)
(* the handler nor push_mouse_movement finds a static absent and panics.   *)
(***************************************************************************)
C19_InitBeforeUnmask ==
    /\ irq_unmasked =>
           /\ usb_bus /\ usb_hid /\ usb_device
           /\ power_on_matrix # << >>
           /\ ~power_on_matrix[1][0][0]
           /\ pc \in LoopPcs
    /\ (pc \in { "push", "push_input", "pull_raw_output" }) => usb_hid
    /\ pc # "panic"

\* the handler has run: the report queued in the cycle before is gone from the
\* endpoint when main is about to push again
C19_Witness ==
    /\ irq_unmasked
    /\ pc = "push_input"
    /\ prev_push = "Ok"
    /\ ep_in = << >>

(***************************************************************************)
(* C20: a scan drives the columns in index order, never more than one at   *)
(* a time; the rows of column c are sampled only while column c alone is   *)
(* driven and the settle delay has passed; a column is driven only when    *)
(* the one before is low again and its settle delay has passed; every      *)
(* column is low when the scan returns.                                    *)
(***************************************************************************)
\* the columns driven high
ActiveCols == { c \in Cols : drive[c] }

\* the sampled matrix is the one the switches closed during the scan stand for
ScanKeysSampled ==
    (scan_at \in { "return", "done" }) => raw_matrix = scan_keys(closed)

C20_State ==
    /\ Cardinality(ActiveCols) <= 1
    /\ col_log = [j \in 1 .. Len(col_log) |-> j - 1]
    /\ (scan_at \in { "delay_high", "sample", "set_low" }) => ActiveCols = { scan_col }
    /\ (scan_at = "sample") => settle >= 10
    /\ (scan_at = "set_high") =>
           (ActiveCols = {} /\ Len(col_log) = scan_col /\ (scan_col > 0 => settle >= 10))
    /\ (scan_at \in { "return", "done" }) => (ActiveCols = {} /\ Len(col_log) = NUM_COLS)

C20_Step ==
    \A c \in Cols :
        (raw_matrix'[c] # raw_matrix[c]) =>
            (scan_at = "sample" /\ ActiveCols = { c } /\ settle >= 10)

C20_ColumnScan == [] C20_State /\ [][C20_Step]_vars

\* a finished scan_keys with three switches of row 5 closed in three columns: each
\* was read in its own column only
C20_Witness ==
    /\ scan_fn = "scan_keys"
    /\ scan_at = "done"
    /\ closed = { << 0, 5 >>, << 11, 5 >>, << 13, 5 >> }
    /\ scan_out = << MatrixOf(closed) >>
    /\ col_log = << 0, 1, 2, 3, 4, 5, 6, 7, 8, 9, 10, 11, 12, 13 >>

====
